---- MODULE Spec2Model ----
(***************************************************************************)
(* AeroDyn Model Factory: the draft/patch merge engine and the graph       *)
(* editor that feeds it.                                                   *)
(*                                                                         *)
(* Part I   - model documents, change operations, the expression check     *)
(* Part II  - the merge engine as a step machine over a heap of documents  *)
(* Part III - the graph editor (GraphEditor.tsx / EnhancedGraphView.tsx)   *)
(*            and the draft store it talks to (api/drafts.ts)              *)
(* Part IV  - the properties                                               *)
(***************************************************************************)
EXTENDS Integers, Sequences, FiniteSets, TLC

\* ------------------------------------------------------------------ bounds
MaxDraftLen == 3
MaxChanges == 2
MaxDrafts == 2
MaxInFlight == 2
MaxExprLen == 2

\* What the user enters in the editor.
NewSymbols == {"M"}
ConnectChoices == {<<"T", "S">>, <<"T", "M">>}
MoveChoices == {"T"}
SaveChoices == {"T"}
DepChoices == {<<>>, <<"S", "T">>}

\* ================================================================ Part I
\* ---------------------------------------------------------- expressions
\* An expression is a sequence of tokens; a token is [t |-> kind, v |-> text].
\* A parameter is written p.<name> (Par) or p['<name>'] (ParIndex); <s>_target
\* is the computed target of state s.
Tok(t, v) == [t |-> t, v |-> v]
Num == Tok("num", "n")
Id(s) == Tok("id", s)
Par(p) == Tok("param", p)
ParIndex(p) == Tok("pindex", p)
Tgt(s) == Tok("target", s)
Fn(f) == Tok("func", f)
Bop(o) == Tok("op", o)
LP == Tok("lparen", "(")
RP == Tok("rparen", ")")
Comma == Tok("comma", ",")

AllowedOperators == {"+", "-", "*", "/", "**"}
FunctionWhitelist ==
  {"clamp", "min", "max", "sigmoid", "step", "smoothstep", "abs", "exp", "log"}

\* A denylist: what is not known to be harmful passes.
TokenDenylist(tok, known_states, known_parameters) ==
  CASE tok.t = "id" -> tok.v \in known_states
    [] tok.t \in {"param", "pindex"} -> tok.v \in known_parameters
    [] tok.t = "target" -> tok.v \in known_states
    [] tok.t = "func" -> tok.v \notin {"eval", "exec", "open"}
    [] tok.t = "keyword" -> FALSE
    [] OTHER -> TRUE

\* One token against the allowlist: anything not listed is an error.
TokenAllowed(tok, known_states, known_parameters) ==
  CASE tok.t = "num" -> TRUE
    [] tok.t = "id" -> tok.v \in known_states
    [] tok.t \in {"param", "pindex"} -> tok.v \in known_parameters
    [] tok.t = "target" -> tok.v \in known_states
    [] tok.t = "op" -> tok.v \in AllowedOperators
    [] tok.t = "func" -> tok.v \in FunctionWhitelist
    [] tok.t \in {"lparen", "rparen", "comma"} -> TRUE
    [] OTHER -> FALSE

RECURSIVE ParenDepthOk(_, _)
ParenDepthOk(expr, depth) ==
  IF expr = <<>> THEN depth = 0
  ELSE LET tok == Head(expr) IN
       IF tok.t = "lparen" THEN ParenDepthOk(Tail(expr), depth + 1)
       ELSE IF tok.t = "rparen"
            THEN depth > 0 /\ ParenDepthOk(Tail(expr), depth - 1)
            ELSE ParenDepthOk(Tail(expr), depth)

\* validate(text, known_states, known_parameters)
ValidateExpression(expr, known_states, known_parameters) ==
  LET ok == /\ expr # <<>>
            /\ \A i \in 1..Len(expr) :
                 TokenAllowed(expr[i], known_states, known_parameters)
            /\ ParenDepthOk(expr, 0)
  IN [valid |-> ok,
      stocks |-> IF ok THEN {expr[i].v : i \in {j \in 1..Len(expr) : expr[j].t = "id"}}
                 ELSE {},
      parameters |-> IF ok
                     THEN {expr[i].v : i \in {j \in 1..Len(expr) :
                                                 expr[j].t \in {"param", "pindex"}}}
                     ELSE {}]

\* "clamp(0.6*S, 0, 1)"
ExprClampS == <<Fn("clamp"), LP, Num, Bop("*"), Id("S"), Comma, Num, Comma, Num, RP>>
\* "p.kT*(T_target - T)"
ExprRateT == <<Par("kT"), Bop("*"), LP, Tgt("T"), Bop("-"), Id("T"), RP>>
\* "kT*(T_target - T)", the parameter written as a bare name
ExprRateTBare == <<Id("kT"), Bop("*"), LP, Tgt("T"), Bop("-"), Id("T"), RP>>
\* "0.5*T"
ExprHalfT == <<Num, Bop("*"), Id("T")>>
\* "0.5*S"
ExprHalfS == <<Num, Bop("*"), Id("S")>>
\* "p.kM*(M_target - M)"
ExprRateM == <<Par("kM"), Bop("*"), LP, Tgt("M"), Bop("-"), Id("M"), RP>>
\* "p.kM*S"
ExprKmS == <<Par("kM"), Bop("*"), Id("S")>>
NoExpr == <<>>

\* ------------------------------------------------------ model documents
Fields == {"states", "parameters", "relations", "equations"}
NoSource == "none"
EmptyFn == [x \in {} |-> 0]

\* The base model of the running example: states T and S, parameter kT,
\* relation r1: S -> T, and the equation of T.
BaseModel ==
  [states |-> [s \in {"T", "S"} |-> IF s = "T" THEN 3 ELSE 4],
   parameters |-> [p \in {"kT"} |-> 7],
   relations |-> <<[id |-> "r1", source |-> "S", target |-> "T"]>>,
   equations |-> [s \in {"T"} |-> [target_expr |-> ExprClampS, rate_expr |-> ExprRateT]]]

EmptyOf(f) == IF f = "relations" THEN <<>> ELSE EmptyFn

\* Symbols in a fixed order, for reports that must not depend on set iteration.
SymbolOrder == <<"M", "S", "T">>

\* ------------------------------------------------------ change operations
Change(op, key) ==
  [op |-> op, key |-> key, value |-> 0, source |-> NoSource, target |-> NoSource,
   target_expr |-> NoExpr, rate_expr |-> NoExpr]
AddState(s, v) == [Change("add_state", s) EXCEPT !.value = v]
UpdateState(s, v) == [Change("update_state", s) EXCEPT !.value = v]
RemoveState(s) == Change("remove_state", s)
AddRelation(r, src, tgt) ==
  [Change("add_relation", r) EXCEPT !.source = src, !.target = tgt]
UpdateRelation(r, src, tgt) ==
  [Change("update_relation", r) EXCEPT !.source = src, !.target = tgt]
RemoveRelation(r) == Change("remove_relation", r)
AddParameter(p, v) == [Change("add_parameter", p) EXCEPT !.value = v]
UpdateParameter(p, v) == [Change("update_parameter", p) EXCEPT !.value = v]
RemoveParameter(p) == Change("remove_parameter", p)
AddEquation(s, te, re) ==
  [Change("add_equation", s) EXCEPT !.target_expr = te, !.rate_expr = re]
UpdateEquation(s, te, re) ==
  [Change("update_equation", s) EXCEPT !.target_expr = te, !.rate_expr = re]
RemoveEquation(s) == Change("remove_equation", s)

\* The operations a draft of the model is built from.
ChangeUniverse ==
  {AddState("M", 5), UpdateState("M", 6), RemoveState("T"),
   AddRelation("r2", "T", "M"), UpdateRelation("r1", "S", "M"), RemoveRelation("r1"),
   AddParameter("kM", 2), RemoveParameter("kT"),
   AddEquation("M", ExprHalfT, ExprRateM), UpdateEquation("T", ExprHalfS, ExprKmS),
   RemoveEquation("T")}

\* ---------------------------------------------------------- apply_change
Restrict(f, S) == [x \in S |-> f[x]]
Extend(f, k, v) == [x \in (DOMAIN f) \cup {k} |-> IF x = k THEN v ELSE f[x]]
MapSeq(seq, Op(_)) == [i \in 1..Len(seq) |-> Op(seq[i])]
RelationIds(m) == {m.relations[i].id : i \in 1..Len(m.relations)}
Touches(rel, s) == rel.source = s \/ rel.target = s

Applied(m, warns) == [ok |-> TRUE, model |-> m, reason |-> "none", warnings |-> warns]
Skipped(m, why) == [ok |-> FALSE, model |-> m, reason |-> why, warnings |-> <<>>]

\* Relation endpoints: the source may be absent, the target may not.
EndpointsTargetOnly(m, c) == c.target \in DOMAIN m.states
EndpointsExist(m, c) ==
  /\ c.source = NoSource \/ c.source \in DOMAIN m.states
  /\ c.target \in DOMAIN m.states

\* The relations that survive the removal of state s.
CascadeOnlyTarget(rels, s) == SelectSeq(rels, LAMBDA r : r.target # s)
CascadeRelations(rels, s) == SelectSeq(rels, LAMBDA r : ~Touches(r, s))

\* remove_state: the state, every relation touching it, the equation keyed by it.
ApplyRemoveState(m, c) ==
  IF c.key \notin DOMAIN m.states THEN Skipped(m, "missing_target")
  ELSE LET s == c.key
           kept == CascadeRelations(m.relations, s)
           gone == SelectSeq(m.relations, LAMBDA r : Touches(r, s))
           relWarns == MapSeq(gone, LAMBDA r : [kind |-> "cascade_relation", key |-> r.id])
           eqWarns == IF s \in DOMAIN m.equations
                      THEN <<[kind |-> "cascade_equation", key |-> s]>>
                      ELSE <<>>
       IN Applied([m EXCEPT !.states = Restrict(m.states, (DOMAIN m.states) \ {s}),
                            !.relations = kept,
                            !.equations = Restrict(m.equations, (DOMAIN m.equations) \ {s})],
                  relWarns \o eqWarns)

ExpressionsValid(m, c) ==
  /\ ValidateExpression(c.target_expr, DOMAIN m.states, DOMAIN m.parameters).valid
  /\ ValidateExpression(c.rate_expr, DOMAIN m.states, DOMAIN m.parameters).valid

\* The two ways an equation check can go wrong (see the properties on equations).
ApplyEquationTargetOnly(m, c) ==
  IF c.key \notin DOMAIN m.states THEN Skipped(m, "unknown_symbol")
  ELSE IF c.op = "add_equation" /\ c.key \in DOMAIN m.equations
       THEN Skipped(m, "duplicate_id")
  ELSE IF c.op = "update_equation" /\ c.key \notin DOMAIN m.equations
       THEN Skipped(m, "missing_target")
  ELSE IF ~ValidateExpression(c.target_expr, DOMAIN m.states, DOMAIN m.parameters).valid
       THEN Skipped(m, "invalid_expression")
  ELSE Applied([m EXCEPT !.equations =
                  Extend(m.equations, c.key,
                         [target_expr |-> c.target_expr, rate_expr |-> c.rate_expr])], <<>>)
ApplyEquationPartial(m, c) ==
  IF c.key \notin DOMAIN m.states THEN Skipped(m, "unknown_symbol")
  ELSE IF c.op = "add_equation" /\ c.key \in DOMAIN m.equations
       THEN Skipped(m, "duplicate_id")
  ELSE IF c.op = "update_equation" /\ c.key \notin DOMAIN m.equations
       THEN Skipped(m, "missing_target")
  ELSE IF ~ValidateExpression(c.target_expr, DOMAIN m.states, DOMAIN m.parameters).valid
       THEN Skipped(m, "invalid_expression")
  ELSE LET half == [m EXCEPT !.equations =
                      Extend(m.equations, c.key,
                             [target_expr |-> c.target_expr,
                              rate_expr |-> IF c.key \in DOMAIN m.equations
                                            THEN m.equations[c.key].rate_expr
                                            ELSE NoExpr])]
       IN IF ~ValidateExpression(c.rate_expr, DOMAIN m.states, DOMAIN m.parameters).valid
          THEN Skipped(half, "invalid_expression")
          ELSE Applied([m EXCEPT !.equations =
                          Extend(m.equations, c.key,
                                 [target_expr |-> c.target_expr,
                                  rate_expr |-> c.rate_expr])], <<>>)

\* add_equation / update_equation: both expressions are validated against the
\* states and parameters of the model the operation is applied to.
ApplyEquation(m, c) ==
  IF c.key \notin DOMAIN m.states THEN Skipped(m, "unknown_symbol")
  ELSE IF c.op = "add_equation" /\ c.key \in DOMAIN m.equations
       THEN Skipped(m, "duplicate_id")
  ELSE IF c.op = "update_equation" /\ c.key \notin DOMAIN m.equations
       THEN Skipped(m, "missing_target")
  ELSE IF ~ExpressionsValid(m, c) THEN Skipped(m, "invalid_expression")
  ELSE Applied([m EXCEPT !.equations =
                  Extend(m.equations, c.key,
                         [target_expr |-> c.target_expr, rate_expr |-> c.rate_expr])], <<>>)

ApplyChange(m, c) ==
  CASE c.op = "add_state" ->
         IF c.key \in DOMAIN m.states THEN Skipped(m, "duplicate_id")
         ELSE Applied([m EXCEPT !.states = Extend(m.states, c.key, c.value)], <<>>)
    [] c.op = "update_state" ->
         IF c.key \notin DOMAIN m.states THEN Skipped(m, "missing_target")
         ELSE Applied([m EXCEPT !.states = Extend(m.states, c.key, c.value)], <<>>)
    [] c.op = "remove_state" -> ApplyRemoveState(m, c)
    [] c.op = "add_relation" ->
         IF c.key \in RelationIds(m) THEN Skipped(m, "duplicate_id")
         ELSE IF ~EndpointsExist(m, c) THEN Skipped(m, "unknown_symbol")
         ELSE Applied([m EXCEPT !.relations =
                         Append(m.relations,
                                [id |-> c.key, source |-> c.source, target |-> c.target])],
                      <<>>)
    [] c.op = "update_relation" ->
         IF c.key \notin RelationIds(m) THEN Skipped(m, "missing_target")
         ELSE IF ~EndpointsExist(m, c) THEN Skipped(m, "unknown_symbol")
         ELSE Applied([m EXCEPT !.relations =
                         MapSeq(m.relations,
                                LAMBDA r : IF r.id = c.key
                                           THEN [id |-> r.id, source |-> c.source,
                                                 target |-> c.target]
                                           ELSE r)],
                      <<>>)
    [] c.op = "remove_relation" ->
         IF c.key \notin RelationIds(m) THEN Skipped(m, "missing_target")
         ELSE Applied([m EXCEPT !.relations =
                         SelectSeq(m.relations, LAMBDA r : r.id # c.key)], <<>>)
    [] c.op = "add_parameter" ->
         IF c.key \in DOMAIN m.parameters THEN Skipped(m, "duplicate_id")
         ELSE Applied([m EXCEPT !.parameters = Extend(m.parameters, c.key, c.value)], <<>>)
    [] c.op = "update_parameter" ->
         IF c.key \notin DOMAIN m.parameters THEN Skipped(m, "missing_target")
         ELSE Applied([m EXCEPT !.parameters = Extend(m.parameters, c.key, c.value)], <<>>)
    [] c.op = "remove_parameter" ->
         IF c.key \notin DOMAIN m.parameters THEN Skipped(m, "missing_target")
         ELSE Applied([m EXCEPT !.parameters =
                         Restrict(m.parameters, (DOMAIN m.parameters) \ {c.key})], <<>>)
    [] c.op \in {"add_equation", "update_equation"} -> ApplyEquation(m, c)
    [] c.op = "remove_equation" ->
         IF c.key \notin DOMAIN m.equations THEN Skipped(m, "missing_target")
         ELSE Applied([m EXCEPT !.equations =
                         Restrict(m.equations, (DOMAIN m.equations) \ {c.key})], <<>>)
    [] OTHER -> Skipped(m, "unknown_operation")

\* The results one application can produce. The cascade report follows the
\* relation list, so there is exactly one.
Reversed(seq) == [i \in 1..Len(seq) |-> seq[Len(seq) + 1 - i]]
ApplyOutcomesAnyOrder(m, c) ==
  LET out == ApplyChange(m, c)
  IN {out, [out EXCEPT !.warnings = Reversed(out.warnings)]}
ApplyOutcomes(m, c) == {ApplyChange(m, c)}

\* -------------------------------------------------------- Model Validator
EquationDeps(eq, known_states, known_parameters) ==
  LET t == ValidateExpression(eq.target_expr, known_states, known_parameters)
      r == ValidateExpression(eq.rate_expr, known_states, known_parameters)
  IN [valid |-> t.valid /\ r.valid,
      stocks |-> t.stocks \cup r.stocks,
      parameters |-> t.parameters \cup r.parameters]

\* State values are kept in tenths; the declared bounds are 0 and 1.
ValueBounds == 0..10
ScenarioOrder == <<"baseline", "stress">>

\* validate(model): every problem found, in document order. A model may come
\* without a scenarios section.
ModelErrors(m) ==
  LET st == DOMAIN m.states
      pa == DOMAIN m.parameters
      outOfBounds == SelectSeq(SymbolOrder, LAMBDA s : s \in st /\ m.states[s] \notin ValueBounds)
      badScenario ==
        IF "scenarios" \in DOMAIN m
        THEN SelectSeq(ScenarioOrder,
               LAMBDA n : n \in DOMAIN m.scenarios /\ ~(m.scenarios[n] \subseteq (st \cup pa)))
        ELSE <<>>
      dangling == SelectSeq(m.relations,
                    LAMBDA r : \/ r.source # NoSource /\ r.source \notin st
                               \/ r.target \notin st)
      dupIdx == SelectSeq([i \in 1..Len(m.relations) |-> i],
                    LAMBDA i : \E j \in 1..(i - 1) : m.relations[j].id = m.relations[i].id)
      orphan == SelectSeq(SymbolOrder, LAMBDA s : s \in DOMAIN m.equations /\ s \notin st)
      badEq == SelectSeq(SymbolOrder,
                 LAMBDA s : /\ s \in DOMAIN m.equations
                            /\ s \in st
                            /\ ~EquationDeps(m.equations[s], st, pa).valid)
  IN MapSeq(dangling, LAMBDA r : [kind |-> "dangling_relation", key |-> r.id])
     \o MapSeq(dupIdx, LAMBDA i : [kind |-> "duplicate_id", key |-> m.relations[i].id])
     \o MapSeq(orphan, LAMBDA s : [kind |-> "orphan_equation", key |-> s])
     \o MapSeq(badEq, LAMBDA s : [kind |-> "unresolved_equation", key |-> s])
     \o MapSeq(outOfBounds, LAMBDA s : [kind |-> "out_of_bounds", key |-> s])
     \o MapSeq(badScenario, LAMBDA n : [kind |-> "unresolved_override", key |-> n])

\* A validator that stops at the first problem.
ValidateModelFirstOnly(m) ==
  LET errs == ModelErrors(m)
  IN [valid |-> errs = <<>>, errors |-> IF errs = <<>> THEN <<>> ELSE <<Head(errs)>>]

\* A validator that takes a feedback loop among the relations for an error.
ValidateModelNoLoops(m) ==
  LET errs == ModelErrors(m)
      loops == IF \E i, j \in 1..Len(m.relations) :
                    /\ m.relations[i].source = m.relations[j].target
                    /\ m.relations[i].target = m.relations[j].source
               THEN <<[kind |-> "circular_dependency", key |-> "relations"]>>
               ELSE <<>>
  IN [valid |-> errs \o loops = <<>>, errors |-> errs \o loops]

ValidateModel(m) ==
  LET errs == ModelErrors(m) IN [valid |-> errs = <<>>, errors |-> errs]

\* ================================================================ Part II
VARIABLES
  heap,           \* address -> collection: the documents' mutable parts
  draft,          \* the draft's ordered list of change operations
  pc,             \* "idle", "apply" or "done": where the merge call stands
  call,           \* how many merge calls have been started on this draft
  mode,           \* "preview" or "commit"
  work,           \* handle of the working document of the running call
  idx,            \* position of the next operation of the draft
  applied_count,  \* operations applied so far
  skipped,        \* [index, reason] of every rejected operation, in order
  warnings,       \* cascaded removals, in order
  result,         \* MergeResult of the last finished call
  first           \* MergeResult of the first call, kept for comparison

mergeVars ==
  <<heap, draft, pc, call, mode, work, idx, applied_count, skipped, warnings, result, first>>

VARIABLES
  component,        \* which editor is mounted
  draftState,       \* {active, draft, changes}
  undoStack,
  redoStack,
  nodes,            \* ids of the nodes shown
  edges,            \* the edges shown: id, source, target
  tasks,            \* requests under way, in the order they were sent
  store,            \* the backend's drafts: draft id -> stored changes
  nextUid,          \* identity of the next change object an edit creates
  backendRejected,  \* changes whose append the backend refused
  discarded         \* changes the user rejected in the draft panel

VARIABLES
  positions,        \* node -> where the canvas draws it
  dragging          \* the nodes whose dragging flag is set

editorVars ==
  <<component, draftState, undoStack, redoStack, nodes, edges, tasks, store, nextUid,
    backendRejected, discarded, positions, dragging>>

VARIABLES
  localEquation,    \* the expression text in the equation editor
  validation,       \* what validate_expression returned for it
  dependencies,     \* what the equation editor extracted from it
  document,         \* a model handed to the Model Validator
  modelReport            \* what the Model Validator returned for it

checkVars == <<localEquation, validation, dependencies, document, modelReport>>

VARIABLES
  showAIModal,      \* the AI proposal modal is open
  aiGenerating,     \* a generation request is under way
  aiProposals,      \* the proposals shown in the modal
  selectedChanges,  \* the modal's selection: indices counted from 0
  acceptLoop,       \* handleAcceptAIProposals under way: what it still has to add
  chosen            \* the proposals that were selected when Accept was pressed

aiVars == <<showAIModal, aiGenerating, aiProposals, selectedChanges, acceptLoop, chosen>>

VARIABLES
  scenarios,        \* the keys of config.scenarios, in insertion order
  selectedScenario, \* the selected scenario's key, or none
  savedScenarios,   \* the keys of the scenarios in the backend's file
  saving            \* the keys whose saveScenario request is under way

appVars == <<scenarios, selectedScenario, savedScenarios, saving>>

vars == <<mergeVars, editorVars, checkVars, aiVars, appVars>>

Tags == {"base", "w1", "w2"}
Addr == Tags \X Fields
Handle(tag) ==
  [states |-> <<tag, "states">>, parameters |-> <<tag, "parameters">>,
   relations |-> <<tag, "relations">>, equations |-> <<tag, "equations">>]
BaseDoc == Handle("base")
NoDoc == Handle("none")

Load(h, doc) ==
  [states |-> h[doc.states], parameters |-> h[doc.parameters],
   relations |-> h[doc.relations], equations |-> h[doc.equations]]
Store(h, doc, m) ==
  [a \in Addr |-> IF a = doc.states THEN m.states
                  ELSE IF a = doc.parameters THEN m.parameters
                  ELSE IF a = doc.relations THEN m.relations
                  ELSE IF a = doc.equations THEN m.equations
                  ELSE h[a]]

\* A copy that shares the nested collections with its original.
ShallowCopy(h, doc, tag) == [heap |-> h, doc |-> doc]
\* deep_copy(base_model): fresh cells for every collection of the document.
DeepCopy(h, doc, tag) ==
  [heap |-> [a \in Addr |-> IF a[1] = tag THEN h[doc[a[2]]] ELSE h[a]],
   doc |-> Handle(tag)]

NoResult ==
  [effective |-> NoDoc, snapshot |-> Load([a \in Addr |-> EmptyOf(a[2])], BaseDoc),
   valid |-> FALSE, errors |-> <<>>, applied_count |-> 0, skipped |-> <<>>,
   warnings |-> <<>>, mode |-> "none", commit |-> FALSE]

MergeInit ==
  /\ heap = [a \in Addr |-> IF a[1] = "base" THEN BaseModel[a[2]] ELSE EmptyOf(a[2])]
  /\ draft = <<>>
  /\ pc = "idle"
  /\ call = 0
  /\ mode = "none"
  /\ work = NoDoc
  /\ idx = 0
  /\ applied_count = 0
  /\ skipped = <<>>
  /\ warnings = <<>>
  /\ result = NoResult
  /\ first = NoResult

\* append_change(draft_id, change)
AppendChange(c) ==
  /\ pc = "idle"
  /\ Len(draft) < MaxDraftLen
  /\ draft' = Append(draft, c)
  /\ UNCHANGED <<heap, pc, call, mode, work, idx, applied_count, skipped, warnings,
                 result, first>>
  /\ UNCHANGED <<editorVars, checkVars, aiVars, appVars>>

RemoveAt(seq, i) == [j \in 1..(Len(seq) - 1) |-> IF j < i THEN seq[j] ELSE seq[j + 1]]

\* remove_change(draft_id, index)
RemoveChange(i) ==
  /\ pc = "idle"
  /\ i \in 1..Len(draft)
  /\ draft' = RemoveAt(draft, i)
  /\ UNCHANGED <<heap, pc, call, mode, work, idx, applied_count, skipped, warnings,
                 result, first>>
  /\ UNCHANGED <<editorVars, checkVars, aiVars, appVars>>

\* merge(base_model, draft, mode), entry: the working document is a deep copy.
\* A second call with the same base, draft and mode may follow the first.
MergeStart(md) ==
  /\ \/ pc = "idle" /\ call = 0
     \/ pc = "done" /\ call = 1 /\ md = mode
  /\ LET tag == IF call = 0 THEN "w1" ELSE "w2"
         cp == DeepCopy(heap, BaseDoc, tag)
     IN /\ heap' = cp.heap
        /\ work' = cp.doc
  /\ call' = call + 1
  /\ mode' = md
  /\ pc' = "apply"
  /\ idx' = 1
  /\ applied_count' = 0
  /\ skipped' = <<>>
  /\ warnings' = <<>>
  /\ UNCHANGED <<draft, result, first>>
  /\ UNCHANGED <<editorVars, checkVars, aiVars, appVars>>

\* The operation handled at position i of the loop over draft.changes.
ChangeAtReversed(changes, i) == changes[Len(changes) + 1 - i]
ChangeAt(changes, i) == changes[i]

\* Where the loop goes after an operation: on, whether it applied or not.
AbortOnFailure(i, ok, n) == IF ok THEN i + 1 ELSE n + 1
NextIndex(i, ok, n) == i + 1

\* One iteration of the loop: apply_change on the working document.
MergeApply ==
  /\ pc = "apply"
  /\ idx <= Len(draft)
  /\ \E out \in ApplyOutcomes(Load(heap, work), ChangeAt(draft, idx)) :
       /\ heap' = Store(heap, work, out.model)
       /\ applied_count' = IF out.ok THEN applied_count + 1 ELSE applied_count
       /\ skipped' = IF out.ok THEN skipped
                     ELSE Append(skipped, [index |-> idx, reason |-> out.reason])
       /\ warnings' = warnings \o out.warnings
       /\ idx' = NextIndex(idx, out.ok, Len(draft))
  /\ UNCHANGED <<draft, pc, call, mode, work, result, first>>
  /\ UNCHANGED <<editorVars, checkVars, aiVars, appVars>>

\* After the loop: the Model Validator runs on the working document and the
\* call returns. The working document is handed over only when it is valid.
MergeValidate ==
  /\ pc = "apply"
  /\ idx > Len(draft)
  /\ LET report == ValidateModel(Load(heap, work))
         res == [effective |-> IF report.valid THEN work ELSE NoDoc,
                 snapshot |-> Load(heap, work),
                 valid |-> report.valid, errors |-> report.errors,
                 applied_count |-> applied_count, skipped |-> skipped,
                 warnings |-> warnings, mode |-> mode,
                 commit |-> (mode = "commit" /\ report.valid)]
     IN /\ result' = res
        /\ first' = IF call = 1 THEN res ELSE first
  /\ pc' = "done"
  /\ UNCHANGED <<heap, draft, call, mode, work, idx, applied_count, skipped, warnings>>
  /\ UNCHANGED <<editorVars, checkVars, aiVars, appVars>>

\* The caller owns the returned effective model and may change it.
CallerEdit(f) ==
  /\ pc = "done"
  /\ result.effective # NoDoc
  /\ heap[result.effective[f]] # EmptyOf(f)
  /\ heap' = [heap EXCEPT ![result.effective[f]] = EmptyOf(f)]
  /\ UNCHANGED <<draft, pc, call, mode, work, idx, applied_count, skipped, warnings,
                 result, first>>
  /\ UNCHANGED <<editorVars, checkVars, aiVars, appVars>>

MergeNext ==
  \/ \E c \in ChangeUniverse : AppendChange(c)
  \/ \E i \in 1..MaxDraftLen : RemoveChange(i)
  \/ \E md \in {"preview", "commit"} : MergeStart(md)
  \/ MergeApply
  \/ MergeValidate
  \/ CallerEdit("states")


\* ================================================================ Part III
\* The graph editor. GraphEditor.tsx and EnhancedGraphView.tsx hold the same
\* draft state and the same addChange; they differ in the edits they offer and
\* in what handleApply resets. Event handlers run on the state of the latest
\* render; what a handler captured (draftState.draft in addChange) stays fixed
\* for all the calls it makes. Every request to the draft API is a task: sent,
\* then handled by the backend, then continued in the editor.

NoDraft == 0
\* The ids a node of the canvas can have.
NodeIds == {"T", "S", "M"}
NoEdge == <<"none", "none", "none">>
NoChange == [uid |-> 0, op |-> "none", key |-> "none", id |-> NoEdge,
             source |-> NoSource, target |-> NoSource, data |-> "none"]
\* PatchChange: op, symbol (key), id, data, reason. uid stands for the identity
\* of the JavaScript object.
PatchState(uid, op, symbol, data) ==
  [NoChange EXCEPT !.uid = uid, !.op = op, !.key = symbol, !.data = data]
PatchRelation(uid, op, id, src, tgt, data) ==
  [NoChange EXCEPT !.uid = uid, !.op = op, !.id = id, !.source = src, !.target = tgt,
                   !.data = data]

\* Edge ids: `${s}_to_${t}`, `auto_${s}_to_${t}`, the id React Flow gives an
\* edge made from a bare connection, and the ids of the loaded relations.
ToId(src, tgt) == <<"to", src, tgt>>
AutoId(src, tgt) == <<"auto", src, tgt>>
FlowId(src, tgt) == <<"xy-edge", src, tgt>>
LoadedId(src, tgt) == <<"rel", src, tgt>>
EdgeOf(id, src, tgt) == [id |-> id, source |-> src, target |-> tgt]

Task(kind, d, c, commit) ==
  [kind |-> kind, phase |-> "sent", draft |-> d, change |-> c, commit |-> commit,
   awaited |-> FALSE]

DropAt(seq, k) == [j \in 1..(Len(seq) - 1) |-> IF j < k THEN seq[j] ELSE seq[j + 1]]
InFlight(kinds) == {k \in 1..Len(tasks) : tasks[k].kind \in kinds}
Idle == [active |-> FALSE, draft |-> NoDraft, changes |-> <<>>]

EditorInit(cmp) ==
  /\ component = cmp
  /\ draftState = Idle
  /\ undoStack = <<>>
  /\ redoStack = <<>>
  /\ nodes = {"T", "S"}
  /\ edges = <<EdgeOf(LoadedId("S", "T"), "S", "T")>>
  /\ positions = [n \in NodeIds |-> "at0"]
  /\ dragging = {}
  /\ tasks = <<>>
  /\ store = <<>>
  /\ nextUid = 1
  /\ backendRejected = {}
  /\ discarded = {}

\* createDraft may be sent while the store and the requests under way leave room.
RoomForDrafts(n) == Len(store) + Cardinality(InFlight({"create"})) + n <= MaxDrafts
\* Requests under way stay within the bound.
RoomForTasks(n) == Len(tasks) + n <= MaxInFlight

\* startDraft: POST /drafts; the state is set when the response arrives.
StartDraftTask == Task("create", NoDraft, NoChange, FALSE)

\* addChange(change): without a draft it starts one and returns; with a draft
\* it sends the change to the draft captured by the handler.
AddChange(c) ==
  IF draftState.draft = NoDraft THEN StartDraftTask
  ELSE Task("append", draftState.draft, c, FALSE)

\* A handler that calls addChange for each of cs, in order, without awaiting.
Record(cs) ==
  /\ nextUid + Len(cs) - 1 <= MaxChanges
  /\ RoomForTasks(Len(cs))
  /\ draftState.draft = NoDraft => RoomForDrafts(Len(cs))
  /\ tasks' = tasks \o [i \in 1..Len(cs) |-> AddChange(cs[i])]
  /\ nextUid' = nextUid + Len(cs)

\* "Start Editing"
StartEditing ==
  /\ ~draftState.active
  /\ RoomForDrafts(1)
  /\ RoomForTasks(1)
  /\ tasks' = Append(tasks, StartDraftTask)
  /\ UNCHANGED <<component, positions, dragging, draftState, undoStack, redoStack, nodes, edges, store,
                 nextUid, backendRejected, discarded>>
  /\ UNCHANGED <<mergeVars, checkVars, aiVars, appVars>>

\* addNode
AddNode(sym) ==
  /\ nodes' = nodes \cup {sym}
  /\ Record(<<PatchState(nextUid, "add_state", sym, "new")>>)
  /\ UNCHANGED <<component, positions, dragging, draftState, undoStack, redoStack, edges, store,
                 backendRejected, discarded>>
  /\ UNCHANGED <<mergeVars, checkVars, aiVars, appVars>>

\* React Flow's addEdge: nothing when the connection already exists.
AddEdge(e, eds) ==
  IF \E k \in 1..Len(eds) : eds[k].source = e.source /\ eds[k].target = e.target
  THEN eds ELSE Append(eds, e)

\* onConnect
OnConnect(src, tgt) ==
  /\ src \in nodes /\ tgt \in nodes
  /\ edges' = AddEdge(EdgeOf(IF component = "GraphEditor" THEN ToId(src, tgt)
                             ELSE FlowId(src, tgt), src, tgt), edges)
  /\ Record(<<PatchRelation(nextUid, "add_relation", ToId(src, tgt), src, tgt, "new")>>)
  /\ UNCHANGED <<component, positions, dragging, draftState, undoStack, redoStack, nodes, store,
                 backendRejected, discarded>>
  /\ UNCHANGED <<mergeVars, checkVars, aiVars, appVars>>

\* A NodeChange of the canvas: a position change carries the node's position
\* and its dragging flag; other changes (selection) carry neither.
NoPosition == "nowhere"
PositionChange(n, pos, drag) ==
  [type |-> "position", id |-> n, position |-> pos, dragging |-> drag]
SelectChange(n) == [type |-> "select", id |-> n, position |-> NoPosition, dragging |-> FALSE]
\* data: { ui: position }
UiData(pos) == "ui:" \o pos

\* onNodesChange of useNodesState: each position change sets the position it
\* carries and the dragging flag of its node.
RECURSIVE PositionsAfter(_, _)
PositionsAfter(pos, changes) ==
  IF changes = <<>> THEN pos
  ELSE LET ch == Head(changes)
       IN PositionsAfter(IF ch.type = "position" /\ ch.position # NoPosition
                            /\ ch.id \in DOMAIN pos
                         THEN [pos EXCEPT ![ch.id] = ch.position] ELSE pos,
                         Tail(changes))
RECURSIVE DraggingAfter(_, _)
DraggingAfter(drag, changes) ==
  IF changes = <<>> THEN drag
  ELSE LET ch == Head(changes)
       IN DraggingAfter(IF ch.type # "position" THEN drag
                        ELSE IF ch.dragging THEN drag \cup {ch.id} ELSE drag \ {ch.id},
                        Tail(changes))

\* The changes handleNodesChange passes on without looking at the dragging flag.
TrackedWhileDragging(changes) ==
  SelectSeq(changes, LAMBDA ch : /\ ch.type = "position"
                                 /\ ch.position # NoPosition
                                 /\ ch.id \in nodes)
\* change.type === 'position' && change.position && !change.dragging, and the
\* node is found among the nodes.
Tracked(changes) ==
  SelectSeq(changes, LAMBDA ch : /\ ch.type = "position"
                                 /\ ch.position # NoPosition
                                 /\ ~ch.dragging
                                 /\ ch.id \in nodes)

\* handleNodesChange (GraphEditor): the canvas applies the changes, and each
\* position change that is not part of a drag under way goes to addChange.
HandleNodesChange(changes) ==
  /\ component = "GraphEditor"
  /\ positions' = PositionsAfter(positions, changes)
  /\ dragging' = DraggingAfter(dragging, changes)
  /\ LET tracked == Tracked(changes)
     IN Record([i \in 1..Len(tracked) |->
                  PatchState(nextUid + i - 1, "update_state", tracked[i].id,
                             UiData(tracked[i].position))])
  /\ UNCHANGED <<component, draftState, undoStack, redoStack, nodes, edges, store,
                 backendRejected, discarded>>
  /\ UNCHANGED <<mergeVars, checkVars, aiVars, appVars>>

\* The stocks an equation depends on, without the node itself, in order.
Sources(deps, n) == SelectSeq(deps, LAMBDA x : x # n)

RECURSIVE AddAutoEdges(_, _, _)
AddAutoEdges(eds, srcs, n) ==
  IF srcs = <<>> THEN eds
  ELSE LET id == AutoId(Head(srcs), n)
           next == IF \E k \in 1..Len(eds) : eds[k].id = id THEN eds
                   ELSE Append(eds, EdgeOf(id, Head(srcs), n))
       IN AddAutoEdges(next, Tail(srcs), n)

\* handleNodeSave. EnhancedGraphView: the auto edges into the node are
\* replaced by one per dependency and each gets an add_relation, then the
\* update_state. GraphEditor: the update_state alone.
HandleNodeSave(n, deps) ==
  /\ n \in nodes
  /\ IF component = "EnhancedGraphView"
     THEN LET srcs == Sources(deps, n)
              cleared == SelectSeq(edges,
                           LAMBDA e : e.target # n \/ e.id[1] # "auto")
          IN /\ edges' = AddAutoEdges(cleared, srcs, n)
             /\ Record([i \in 1..Len(srcs) |->
                          PatchRelation(nextUid + i - 1, "add_relation",
                                        AutoId(srcs[i], n), srcs[i], n, "auto")]
                       \o <<PatchState(nextUid + Len(srcs), "update_state", n, "props")>>)
     ELSE /\ deps = <<>>
          /\ edges' = edges
          /\ Record(<<PatchState(nextUid, "update_state", n, "props")>>)
  /\ UNCHANGED <<component, positions, dragging, draftState, undoStack, redoStack, nodes, store,
                 backendRejected, discarded>>
  /\ UNCHANGED <<mergeVars, checkVars, aiVars, appVars>>

\* handleEdgeSave
HandleEdgeSave(k) ==
  /\ k \in 1..Len(edges)
  /\ Record(<<PatchRelation(nextUid, "update_relation", edges[k].id, NoSource, NoSource,
                            "props")>>)
  /\ UNCHANGED <<component, positions, dragging, draftState, undoStack, redoStack, nodes, edges, store,
                 backendRejected, discarded>>
  /\ UNCHANGED <<mergeVars, checkVars, aiVars, appVars>>

\* handleEdgeDelete
HandleEdgeDelete(k) ==
  /\ k \in 1..Len(edges)
  /\ edges' = DropAt(edges, k)
  /\ Record(<<PatchRelation(nextUid, "remove_relation", edges[k].id, NoSource, NoSource,
                            "none")>>)
  /\ UNCHANGED <<component, positions, dragging, draftState, undoStack, redoStack, nodes, store,
                 backendRejected, discarded>>
  /\ UNCHANGED <<mergeVars, checkVars, aiVars, appVars>>

\* handleRejectChange(changeIndex), changeIndex counted from 0.
HandleRejectChange(i) ==
  /\ component = "EnhancedGraphView"
  /\ draftState.active /\ draftState.draft # NoDraft
  /\ i + 1 \in 1..Len(draftState.changes)
  /\ LET changeToReject == draftState.changes[i + 1]
     IN /\ nodes' = IF changeToReject.op = "add_state"
                    THEN nodes \ {changeToReject.key} ELSE nodes
        /\ edges' = IF changeToReject.op = "add_relation"
                    THEN SelectSeq(edges, LAMBDA e : e.id # changeToReject.id)
                    ELSE edges
        /\ draftState' = [draftState EXCEPT !.changes = DropAt(@, i + 1)]
        /\ undoStack' = SelectSeq(undoStack, LAMBDA c : c.uid # changeToReject.uid)
        /\ discarded' = discarded \cup {changeToReject.uid}
  /\ UNCHANGED <<component, positions, dragging, redoStack, tasks, store, nextUid, backendRejected>>
  /\ UNCHANGED <<mergeVars, checkVars, aiVars, appVars>>

\* An undo that forgets the change it takes off the stack.
HandleUndoForgets ==
  /\ undoStack # <<>>
  /\ undoStack' = SubSeq(undoStack, 1, Len(undoStack) - 1)
  /\ redoStack' = redoStack
  /\ UNCHANGED <<component, positions, dragging, draftState, nodes, edges, tasks, store, nextUid,
                 backendRejected, discarded>>
  /\ UNCHANGED <<mergeVars, checkVars, aiVars, appVars>>

\* handleUndo
HandleUndo ==
  /\ undoStack # <<>>
  /\ undoStack' = SubSeq(undoStack, 1, Len(undoStack) - 1)
  /\ redoStack' = Append(redoStack, undoStack[Len(undoStack)])
  /\ UNCHANGED <<component, positions, dragging, draftState, nodes, edges, tasks, store, nextUid,
                 backendRejected, discarded>>
  /\ UNCHANGED <<mergeVars, checkVars, aiVars, appVars>>

\* handleRedo
HandleRedo ==
  /\ redoStack # <<>>
  /\ redoStack' = SubSeq(redoStack, 1, Len(redoStack) - 1)
  /\ undoStack' = Append(undoStack, redoStack[Len(redoStack)])
  /\ UNCHANGED <<component, positions, dragging, draftState, nodes, edges, tasks, store, nextUid,
                 backendRejected, discarded>>
  /\ UNCHANGED <<mergeVars, checkVars, aiVars, appVars>>

\* handleApply(commit): POST /drafts/{id}/apply; the rest of the handler runs
\* when the result arrives.
HandleApply(commit) ==
  /\ draftState.active /\ draftState.draft # NoDraft
  /\ RoomForTasks(1)
  /\ tasks' = Append(tasks, Task("apply", draftState.draft, NoChange, commit))
  /\ UNCHANGED <<component, positions, dragging, draftState, undoStack, redoStack, nodes, edges, store,
                 nextUid, backendRejected, discarded>>
  /\ UNCHANGED <<mergeVars, checkVars, aiVars, appVars>>

\* ------------------------------------------------------- the draft store
\* startDraft, continued: POST /drafts stores an empty draft and the editor
\* takes it as its draft.
StartDraftReturn(k) ==
  /\ k \in InFlight({"create"})
  /\ store' = Append(store, <<>>)
  /\ draftState' = [active |-> TRUE, draft |-> Len(store) + 1, changes |-> <<>>]
  /\ tasks' = DropAt(tasks, k)
  /\ UNCHANGED <<component, positions, dragging, undoStack, redoStack, nodes, edges, nextUid,
                 backendRejected, discarded>>
  /\ UNCHANGED <<mergeVars, checkVars, aiVars, appVars>>

\* POST /drafts/{id}/add-change
BackendAddChange(k) ==
  /\ k \in InFlight({"append"}) /\ tasks[k].phase = "sent"
  /\ store' = [store EXCEPT ![tasks[k].draft] = Append(@, tasks[k].change)]
  /\ tasks' = [tasks EXCEPT ![k].phase = "ok"]
  /\ UNCHANGED <<component, positions, dragging, draftState, undoStack, redoStack, nodes, edges, nextUid,
                 backendRejected, discarded>>
  /\ UNCHANGED <<mergeVars, checkVars, aiVars, appVars>>

\* createDraft or addChangeToDraft gets a response that is not ok: the client
\* function throws and the caller's catch logs it.
RequestFailed(k) ==
  /\ k \in InFlight({"create", "append"}) /\ tasks[k].phase = "sent"
  /\ tasks' = DropAt(tasks, k)
  /\ backendRejected' = IF tasks[k].kind = "append"
                        THEN backendRejected \cup {tasks[k].change.uid}
                        ELSE backendRejected
  /\ UNCHANGED <<component, positions, dragging, draftState, undoStack, redoStack, nodes, edges, store,
                 nextUid, discarded>>
  /\ UNCHANGED <<mergeVars, checkVars, aiVars, appVars>>

\* addChange after addChangeToDraft returned.
AddChangeReturn(k) ==
  /\ k \in InFlight({"append"}) /\ tasks[k].phase = "ok"
  /\ draftState' = [draftState EXCEPT !.changes = Append(@, tasks[k].change)]
  /\ undoStack' = Append(undoStack, tasks[k].change)
  /\ redoStack' = <<>>
  /\ tasks' = DropAt(tasks, k)
  /\ UNCHANGED <<component, positions, dragging, nodes, edges, store, nextUid, backendRejected, discarded>>
  /\ UNCHANGED <<mergeVars, checkVars, aiVars, appVars>>

\* handleApply, continued: a successful result ends the draft, whatever commit
\* was; a failed result or request only raises an alert.
ApplyReturn(k, ok) ==
  /\ k \in InFlight({"apply"})
  /\ tasks' = DropAt(tasks, k)
  /\ IF ok
     THEN /\ draftState' = Idle
          /\ IF component = "EnhancedGraphView"
             THEN undoStack' = <<>> /\ redoStack' = <<>>
             ELSE UNCHANGED <<undoStack, redoStack>>
     ELSE UNCHANGED <<draftState, undoStack, redoStack>>
  /\ UNCHANGED <<component, positions, dragging, nodes, edges, store, nextUid, backendRejected, discarded>>
  /\ UNCHANGED <<mergeVars, checkVars, aiVars, appVars>>

EditorNext ==
  \/ StartEditing
  \/ \E sym \in NewSymbols : AddNode(sym)
  \/ \E c \in ConnectChoices : OnConnect(c[1], c[2])
  \/ \E n \in MoveChoices : HandleNodesChange(<<PositionChange(n, "at1", FALSE)>>)
  \/ \E n \in SaveChoices, deps \in DepChoices : HandleNodeSave(n, deps)
  \/ \E k \in 1..MaxChanges : HandleEdgeSave(k)
  \/ \E k \in 1..MaxChanges : HandleEdgeDelete(k)
  \/ \E i \in 0..(MaxChanges - 1) : HandleRejectChange(i)
  \/ HandleUndo
  \/ HandleRedo
  \/ \E commit \in BOOLEAN : HandleApply(commit)
  \/ \E k \in 1..MaxInFlight : StartDraftReturn(k)
  \/ \E k \in 1..MaxInFlight : BackendAddChange(k)
  \/ \E k \in 1..MaxInFlight : RequestFailed(k)
  \/ \E k \in 1..MaxInFlight : AddChangeReturn(k)
  \/ \E k \in 1..MaxInFlight, ok \in BOOLEAN : ApplyReturn(k, ok)

\* ------------------------------------------------------ AI proposals
NoLoop == [active |-> FALSE, draft |-> NoDraft, rest |-> <<>>]

AIIdle ==
  /\ showAIModal = FALSE
  /\ aiGenerating = FALSE
  /\ aiProposals = <<>>
  /\ selectedChanges = {}
  /\ acceptLoop = NoLoop
  /\ chosen = {}

\* What the generator may answer: the changes of a patch, without identity.
ProposalLists ==
  {<<PatchState(0, "add_state", "M", "new")>>,
   <<PatchState(0, "add_state", "M", "new"),
     PatchRelation(0, "add_relation", ToId("T", "M"), "T", "M", "new")>>}

\* "Ask AI"
OpenAIModal ==
  /\ ~showAIModal
  /\ showAIModal' = TRUE
  /\ UNCHANGED <<aiGenerating, aiProposals, selectedChanges, acceptLoop, chosen>>
  /\ UNCHANGED <<mergeVars, editorVars, checkVars, appVars>>

\* The modal's onClose
CloseAIModal ==
  /\ showAIModal
  /\ showAIModal' = FALSE
  /\ aiProposals' = <<>>
  /\ UNCHANGED <<aiGenerating, selectedChanges, acceptLoop, chosen>>
  /\ UNCHANGED <<mergeVars, editorVars, checkVars, appVars>>

\* handleAIGenerate: the Generate button is disabled while a request runs.
HandleAIGenerate ==
  /\ showAIModal /\ ~aiGenerating
  /\ aiGenerating' = TRUE
  /\ UNCHANGED <<showAIModal, aiProposals, selectedChanges, acceptLoop, chosen>>
  /\ UNCHANGED <<mergeVars, editorVars, checkVars, appVars>>

\* handleAIGenerate, continued: the answer replaces the proposals, or the
\* request failed and only the error is kept.
AIGenerateReturn(answer) ==
  /\ aiGenerating
  /\ nextUid + Len(answer) - 1 <= MaxChanges
  /\ aiProposals' = [i \in 1..Len(answer) |-> [answer[i] EXCEPT !.uid = nextUid + i - 1]]
  /\ nextUid' = nextUid + Len(answer)
  /\ aiGenerating' = FALSE
  /\ UNCHANGED <<showAIModal, selectedChanges, acceptLoop, chosen>>
  /\ UNCHANGED <<component, positions, dragging, draftState, undoStack, redoStack, nodes, edges, tasks, store,
                 backendRejected, discarded>>
  /\ UNCHANGED <<mergeVars, checkVars, appVars>>

AIGenerateFailed ==
  /\ aiGenerating
  /\ aiGenerating' = FALSE
  /\ UNCHANGED <<showAIModal, aiProposals, selectedChanges, acceptLoop, chosen>>
  /\ UNCHANGED <<mergeVars, editorVars, checkVars, appVars>>

\* toggleChange(index) on a row of the list
ToggleChange(index) ==
  /\ showAIModal
  /\ index + 1 \in 1..Len(aiProposals)
  /\ selectedChanges' = IF index \in selectedChanges THEN selectedChanges \ {index}
                        ELSE selectedChanges \cup {index}
  /\ UNCHANGED <<showAIModal, aiGenerating, aiProposals, acceptLoop, chosen>>
  /\ UNCHANGED <<mergeVars, editorVars, checkVars, appVars>>

\* "Select All" / "Deselect All"
ToggleAll ==
  /\ showAIModal
  /\ aiProposals # <<>>
  /\ selectedChanges' = IF Cardinality(selectedChanges) = Len(aiProposals) THEN {}
                        ELSE 0..(Len(aiProposals) - 1)
  /\ UNCHANGED <<showAIModal, aiGenerating, aiProposals, acceptLoop, chosen>>
  /\ UNCHANGED <<mergeVars, editorVars, checkVars, appVars>>

\* proposals.filter((_, i) => selectedChanges.has(i))
AllProposals(proposals, selection) == proposals
SelectedProposals(proposals, selection) ==
  LET at == SelectSeq([i \in 1..Len(proposals) |-> i], LAMBDA i : (i - 1) \in selection)
  IN [k \in 1..Len(at) |-> proposals[at[k]]]

\* handleAcceptSelected, and handleAcceptAIProposals up to its first await.
\* One handleAcceptAIProposals runs at a time.
HandleAcceptSelected ==
  /\ showAIModal
  /\ ~acceptLoop.active
  /\ LET selected == SelectedProposals(aiProposals, selectedChanges)
     IN /\ selected # <<>>
        /\ acceptLoop' = [active |-> TRUE, draft |-> draftState.draft, rest |-> selected]
  /\ chosen' = chosen \cup {aiProposals[i].uid :
                              i \in {j \in 1..Len(aiProposals) : (j - 1) \in selectedChanges}}
  /\ selectedChanges' = {}
  /\ UNCHANGED <<showAIModal, aiGenerating, aiProposals>>
  /\ UNCHANGED <<mergeVars, editorVars, checkVars, appVars>>

AwaitedTask == \E k \in 1..Len(tasks) : tasks[k].awaited

\* for (const change of changes) await addChange(change): addChange is the one
\* of the render in which Accept was pressed, with that render's draft.
AcceptNext ==
  /\ acceptLoop.active /\ acceptLoop.rest # <<>>
  /\ ~AwaitedTask
  /\ RoomForTasks(1)
  /\ acceptLoop.draft = NoDraft => RoomForDrafts(1)
  /\ tasks' = Append(tasks,
                [(IF acceptLoop.draft = NoDraft THEN StartDraftTask
                  ELSE Task("append", acceptLoop.draft, Head(acceptLoop.rest), FALSE))
                 EXCEPT !.awaited = TRUE])
  /\ acceptLoop' = [acceptLoop EXCEPT !.rest = Tail(@)]
  /\ UNCHANGED <<showAIModal, aiGenerating, aiProposals, selectedChanges, chosen>>
  /\ UNCHANGED <<component, positions, dragging, draftState, undoStack, redoStack, nodes, edges, store, nextUid,
                 backendRejected, discarded>>
  /\ UNCHANGED <<mergeVars, checkVars, appVars>>

\* After the loop: the modal is closed and the proposals are dropped.
AcceptDone ==
  /\ acceptLoop.active /\ acceptLoop.rest = <<>>
  /\ ~AwaitedTask
  /\ acceptLoop' = NoLoop
  /\ showAIModal' = FALSE
  /\ aiProposals' = <<>>
  /\ UNCHANGED <<aiGenerating, selectedChanges, chosen>>
  /\ UNCHANGED <<mergeVars, editorVars, checkVars, appVars>>

\* The editor with the AI assistant as the only source of changes.
AINext ==
  \/ StartEditing
  \/ OpenAIModal
  \/ CloseAIModal
  \/ HandleAIGenerate
  \/ \E answer \in ProposalLists : AIGenerateReturn(answer)
  \/ AIGenerateFailed
  \/ \E index \in 0..(MaxChanges - 1) : ToggleChange(index)
  \/ ToggleAll
  \/ HandleAcceptSelected
  \/ AcceptNext
  \/ AcceptDone
  \/ \E k \in 1..MaxInFlight : StartDraftReturn(k)
  \/ \E k \in 1..MaxInFlight : BackendAddChange(k)
  \/ \E k \in 1..MaxInFlight : RequestFailed(k)
  \/ \E k \in 1..MaxInFlight : AddChangeReturn(k)

\* ================================================================ Part IV
\* The validators and the equation editor's dependency extraction, applied to
\* one expression and one model at a time.

KnownStates == {"T", "S", "M"}
KnownParameters == {"kT", "kM", "S"}

\* What a user can type besides the DSL: an import, a comparison, a boolean
\* operator, a subscript, an attribute access, other functions and names.
Alphabet ==
  {Num, Id("T"), Id("S"), Id("Z"), Par("kT"), Par("S"), Par("zz"), ParIndex("kM"),
   ParIndex("kT"), Tgt("T"), Fn("clamp"), Fn("eval"), Bop("*"), Bop("//"),
   Tok("compare", "<"), Tok("bool", "and"), Tok("keyword", "import"),
   Tok("subscript", "[0]"), Tok("attribute", ".real"), LP, RP}

RECURSIVE Texts(_)
Texts(n) ==
  IF n = 0 THEN {<<>>}
  ELSE LET shorter == Texts(n - 1)
       IN shorter \cup {Append(e, tok) : e \in {x \in shorter : Len(x) = n - 1},
                                         tok \in Alphabet}

Expressions ==
  Texts(MaxExprLen)
    \cup {ExprClampS, ExprRateT, ExprRateTBare, ExprHalfT, ExprHalfS, ExprRateM, ExprKmS}

\* The words of a token's text, as the regular expression's \b sees them: the
\* name after p. or inside p['...'] is a word of its own, <s>_target is one word.
Words(tok) ==
  CASE tok.t \in {"id", "func", "bool", "keyword"} -> <<tok.v>>
    [] tok.t \in {"param", "pindex"} -> <<"p", tok.v>>
    [] tok.t = "target" -> <<tok.v \o "_target">>
    [] OTHER -> <<>>

RECURSIVE Flatten(_)
Flatten(seqs) == IF seqs = <<>> THEN <<>> ELSE Head(seqs) \o Flatten(Tail(seqs))

\* [...new Set(list)]: the first occurrence of each element, in order.
RECURSIVE Unique(_)
Unique(list) ==
  IF list = <<>> THEN <<>>
  ELSE LET init == Unique(SubSeq(list, 1, Len(list) - 1))
           last == list[Len(list)]
       IN IF \E i \in 1..Len(init) : init[i] = last THEN init ELSE Append(init, last)

\* EquationEditor's dependencies: stocks are the words of the text that are
\* available stocks; parameters are the names written p['<name>'].
ExtractDependencies(text, availableStocks) ==
  LET words == Flatten([i \in 1..Len(text) |-> Words(text[i])])
      stockMatches == SelectSeq(words, LAMBDA w : w \in availableStocks)
      paramMatches == SelectSeq(text, LAMBDA tok : tok.t = "pindex")
  IN [stocks |-> Unique(stockMatches),
      parameters |-> Unique([i \in 1..Len(paramMatches) |-> paramMatches[i].v])]

NoValidation == [valid |-> FALSE, stocks |-> {"none"}, parameters |-> {"none"}]
NoDependencies == [stocks |-> <<"none">>, parameters |-> <<"none">>]
NoReport == [valid |-> FALSE, errors |-> <<[kind |-> "none", key |-> "none"]>>]

CheckIdle(text, doc) ==
  /\ localEquation = text
  /\ validation = NoValidation
  /\ dependencies = NoDependencies
  /\ document = doc
  /\ modelReport = NoReport

\* validate_expression(text, known_states, known_parameters)
ValidateExpressionCall ==
  /\ validation = NoValidation
  /\ validation' = ValidateExpression(localEquation, KnownStates, KnownParameters)
  /\ UNCHANGED <<localEquation, dependencies, document, modelReport>>
  /\ UNCHANGED <<mergeVars, editorVars, aiVars, appVars>>

\* The equation editor renders: dependencies = useMemo(...)
DependenciesMemo ==
  /\ dependencies = NoDependencies
  /\ dependencies' = ExtractDependencies(localEquation, KnownStates)
  /\ UNCHANGED <<localEquation, validation, document, modelReport>>
  /\ UNCHANGED <<mergeVars, editorVars, aiVars, appVars>>

\* The violations a model can be built with, each independent of the others.
Defects ==
  {"dangling_relation", "duplicate_id", "orphan_equation", "unresolved_equation",
   "out_of_bounds", "unresolved_override"}

Relation(id, src, tgt) == [id |-> id, source |-> src, target |-> tgt]
Equation(te, re) == [target_expr |-> te, rate_expr |-> re]

\* The base model with a baseline scenario and the given violations: a
\* relation to a state Z that does not exist, a second relation r1, an
\* equation for the absent state M, an equation of S over the unknown
\* parameter kM, S = 1.2, a scenario overriding the unknown key kZ.
DefectiveModel(D) ==
  [states |-> [s \in {"T", "S"} |->
                 IF s = "T" THEN 3 ELSE IF "out_of_bounds" \in D THEN 12 ELSE 4],
   parameters |-> [p \in {"kT"} |-> 7],
   relations |-> <<Relation("r1", "S", "T")>>
                 \o (IF "dangling_relation" \in D THEN <<Relation("r2", "T", "Z")>> ELSE <<>>)
                 \o (IF "duplicate_id" \in D THEN <<Relation("r1", "T", "S")>> ELSE <<>>),
   equations |-> [s \in {"T"} \cup (IF "orphan_equation" \in D THEN {"M"} ELSE {})
                               \cup (IF "unresolved_equation" \in D THEN {"S"} ELSE {}) |->
                    CASE s = "T" -> Equation(ExprClampS, ExprRateT)
                      [] s = "M" -> Equation(ExprHalfT, ExprHalfS)
                      [] s = "S" -> Equation(ExprHalfT, ExprKmS)],
   scenarios |-> [n \in {"baseline"} \cup (IF "unresolved_override" \in D THEN {"stress"} ELSE {})
                   |-> IF n = "baseline" THEN {"kT", "S"} ELSE {"kZ"}]]

\* Models with feedback: T and S depend on each other, by relations and by
\* equations; T depends on itself.
MutualModel ==
  [states |-> [s \in {"T", "S"} |-> IF s = "T" THEN 3 ELSE 4],
   parameters |-> [p \in {"kT"} |-> 7],
   relations |-> <<Relation("r1", "S", "T"), Relation("r2", "T", "S")>>,
   equations |-> [s \in {"T", "S"} |->
                    IF s = "T" THEN Equation(ExprClampS, ExprRateT)
                    ELSE Equation(ExprHalfT, ExprHalfT)]]
SelfLoopModel ==
  [states |-> [s \in {"T"} |-> 3],
   parameters |-> [p \in {"kT"} |-> 7],
   relations |-> <<Relation("r1", "T", "T")>>,
   equations |-> [s \in {"T"} |-> Equation(ExprHalfT, ExprRateT)]]
FeedbackModels == {MutualModel, SelfLoopModel}

\* The models handed to the Model Validator.
Documents == {BaseModel} \cup FeedbackModels \cup {DefectiveModel(D) : D \in SUBSET Defects}

\* validate(model)
ValidateModelCall ==
  /\ modelReport = NoReport
  /\ modelReport' = ValidateModel(document)
  /\ UNCHANGED <<localEquation, validation, dependencies, document>>
  /\ UNCHANGED <<mergeVars, editorVars, aiVars, appVars>>

CheckNext ==
  \/ ValidateExpressionCall
  \/ DependenciesMemo
  \/ ValidateModelCall

\* ------------------------------------------------------------- the app
NoScenario == "none"
\* The scenarios of the configuration file.
FileScenarios == <<"baseline", "stress">>
\* scenario.name.toLowerCase().replace(/\s+/g, '_')
ScenarioKey(name) ==
  CASE name = "Stress Test" -> "stress_test"
    [] name = "Baseline" -> "baseline"
    [] OTHER -> name
\* The names typed in the scenario modal.
ScenarioNames == {"Stress Test", "Baseline"}

\* { ...scenarios, [key]: scenario }: a new key goes last, a known one stays.
PutKey(keys, key) ==
  IF \E i \in 1..Len(keys) : keys[i] = key THEN keys ELSE Append(keys, key)
\* const { [name]: _, ...rest } = scenarios
DropKey(keys, key) == SelectSeq(keys, LAMBDA k : k # key)
KeysOf(keys) == {keys[i] : i \in 1..Len(keys)}

\* The app after its first load: the first scenario of the file is selected.
AppLoaded ==
  /\ scenarios = FileScenarios
  /\ selectedScenario = FileScenarios[1]
  /\ savedScenarios = FileScenarios
  /\ saving = {}

\* handleSelectScenario(name), from the scenario panel's list
HandleSelectScenario(name) ==
  /\ name \in KeysOf(scenarios)
  /\ selectedScenario' = name
  /\ UNCHANGED <<scenarios, savedScenarios, saving>>
  /\ UNCHANGED <<mergeVars, editorVars, checkVars, aiVars>>

\* handleSaveScenario(scenario), up to its await
HandleSaveScenario(name) ==
  /\ scenarios' = PutKey(scenarios, ScenarioKey(name))
  /\ saving' = saving \cup {ScenarioKey(name)}
  /\ UNCHANGED <<selectedScenario, savedScenarios>>
  /\ UNCHANGED <<mergeVars, editorVars, checkVars, aiVars>>

\* handleSaveScenario, continued: saved or not, the scenario is selected.
SaveScenarioReturn(key, ok) ==
  /\ key \in saving
  /\ saving' = saving \ {key}
  /\ savedScenarios' = IF ok THEN PutKey(savedScenarios, key) ELSE savedScenarios
  /\ selectedScenario' = key
  /\ UNCHANGED scenarios
  /\ UNCHANGED <<mergeVars, editorVars, checkVars, aiVars>>

\* handleDeleteScenario(name)
HandleDeleteScenario(name) ==
  /\ name \in KeysOf(scenarios)
  /\ LET rest == DropKey(scenarios, name)
     IN /\ scenarios' = rest
        /\ selectedScenario' = IF selectedScenario = name
                               THEN (IF Len(rest) > 0 THEN rest[1] ELSE NoScenario)
                               ELSE selectedScenario
  /\ UNCHANGED <<savedScenarios, saving>>
  /\ UNCHANGED <<mergeVars, editorVars, checkVars, aiVars>>

\* handleDuplicateScenario(name), for a scenario of the file
HandleDuplicateScenario(name) ==
  /\ name \in KeysOf(scenarios) \cap KeysOf(FileScenarios)
  /\ scenarios' = PutKey(scenarios, name \o "_copy")
  /\ UNCHANGED <<selectedScenario, savedScenarios, saving>>
  /\ UNCHANGED <<mergeVars, editorVars, checkVars, aiVars>>

\* handleReload: the configuration is replaced by the backend's, or the
\* request fails and only the error is kept.
HandleReload(ok) ==
  /\ scenarios' = IF ok THEN savedScenarios ELSE scenarios
  /\ UNCHANGED <<selectedScenario, savedScenarios, saving>>
  /\ UNCHANGED <<mergeVars, editorVars, checkVars, aiVars>>

\* Every key a scenario of the app can have.
ScenarioKeys ==
  KeysOf(FileScenarios) \cup {ScenarioKey(name) : name \in ScenarioNames}
    \cup {key \o "_copy" : key \in KeysOf(FileScenarios)}

AppNext ==
  \/ \E name \in ScenarioKeys : HandleSelectScenario(name)
  \/ \E name \in ScenarioNames : HandleSaveScenario(name)
  \/ \E key \in ScenarioKeys, ok \in BOOLEAN : SaveScenarioReturn(key, ok)
  \/ \E name \in ScenarioKeys : HandleDeleteScenario(name)
  \/ \E name \in ScenarioKeys : HandleDuplicateScenario(name)
  \/ \E ok \in BOOLEAN : HandleReload(ok)

\* ------------------------------------------------------- specifications
\* Either editor is mounted; no merge is running.
EditorSpecInit ==
  /\ \E cmp \in {"GraphEditor", "EnhancedGraphView"} : MergeInit /\ EditorInit(cmp)
  /\ CheckIdle(<<>>, BaseModel)
  /\ AIIdle
  /\ AppLoaded

EditorSpec == EditorSpecInit /\ [][EditorNext]_vars

\* The merge engine on its own: the editor stays as it was mounted.
Init ==
  MergeInit /\ EditorInit("EnhancedGraphView") /\ CheckIdle(<<>>, BaseModel) /\ AIIdle
    /\ AppLoaded

Spec == Init /\ [][MergeNext]_vars

\* One expression or one model is checked; nothing is edited or merged.
CheckInit ==
  /\ MergeInit
  /\ EditorInit("EnhancedGraphView")
  /\ AIIdle
  /\ AppLoaded
  /\ \E text \in Expressions, doc \in Documents :
       /\ text = <<>> \/ doc = BaseModel
       /\ CheckIdle(text, doc)

CheckSpec == CheckInit /\ [][CheckNext]_vars

\* What the canvas reports while nodes are dragged, moved or selected: one
\* change, or the end of a drag of two selected nodes.
NodeChanges ==
  {PositionChange(n, pos, drag) : n \in {"T", "M"}, pos \in {"at1", "at2"}, drag \in BOOLEAN}
    \cup {SelectChange("T")}
NodeChangeLists ==
  {<<ch>> : ch \in NodeChanges}
    \cup {<<PositionChange("T", "at1", FALSE), PositionChange("S", "at2", FALSE)>>}

DragNext ==
  \/ StartEditing
  \/ \E changes \in NodeChangeLists : HandleNodesChange(changes)
  \/ \E k \in 1..MaxInFlight : StartDraftReturn(k)
  \/ \E k \in 1..MaxInFlight : BackendAddChange(k)
  \/ \E k \in 1..MaxInFlight : RequestFailed(k)
  \/ \E k \in 1..MaxInFlight : AddChangeReturn(k)

DragInit ==
  MergeInit /\ EditorInit("GraphEditor") /\ CheckIdle(<<>>, BaseModel) /\ AIIdle
    /\ AppLoaded

\* The GraphEditor canvas and the draft store.
DragSpec == DragInit /\ [][DragNext]_vars

\* The app's scenario list; the editor stays as it was mounted.
AppSpec == Init /\ [][AppNext]_vars

\* Either editor with its AI assistant.
AISpec == EditorSpecInit /\ [][AINext]_vars

\* ================================================================ Part V
\* ------------------------------------------- reference views of a draft
\* The state symbols present after the first n operations of a draft: an
\* add_state leaves its symbol present and a remove_state leaves it absent,
\* whether the operation applied or was skipped.
RECURSIVE StatesAfter(_, _)
StatesAfter(changes, n) ==
  IF n = 0 THEN DOMAIN BaseModel.states
  ELSE LET c == changes[n]
           before == StatesAfter(changes, n - 1)
       IN IF c.op = "add_state" THEN before \cup {c.key}
          ELSE IF c.op = "remove_state" THEN before \ {c.key}
          ELSE before

RECURSIVE ParametersAfter(_, _)
ParametersAfter(changes, n) ==
  IF n = 0 THEN DOMAIN BaseModel.parameters
  ELSE LET c == changes[n]
           before == ParametersAfter(changes, n - 1)
       IN IF c.op = "add_parameter" THEN before \cup {c.key}
          ELSE IF c.op = "remove_parameter" THEN before \ {c.key}
          ELSE before

SkippedIndices == {skipped[k].index : k \in 1..Len(skipped)}
SkipReasons ==
  {"duplicate_id", "missing_target", "unknown_symbol", "invalid_expression"}

\* The operations of the draft that were not skipped, in list order.
RECURSIVE Kept(_, _, _)
Kept(changes, out, n) ==
  IF n = 0 THEN <<>>
  ELSE IF n \in out THEN Kept(changes, out, n - 1)
       ELSE Append(Kept(changes, out, n - 1), changes[n])

RECURSIVE ApplyAll(_, _)
ApplyAll(m, changes) ==
  IF changes = <<>> THEN m
  ELSE ApplyAll(ApplyChange(m, Head(changes)).model, Tail(changes))

\* C1: merge never mutates its base model. In every state - while a merge
\* runs, after it returned (valid or not, with or without skips), and after the
\* caller changed the returned effective model - the base document holds the
\* value it was given, and neither the working document nor the returned
\* effective model shares a cell with it.
C1_BaseNeverMutated ==
  /\ Load(heap, BaseDoc) = BaseModel
  /\ \A f \in Fields, g \in Fields :
       /\ work[f] # BaseDoc[g]
       /\ result.effective[f] # BaseDoc[g]

\* A merge with applied and skipped operations has returned twice and the
\* caller has emptied the states of the returned effective model.
C1_Witness ==
  /\ pc = "done"
  /\ call = 2
  /\ result.applied_count > 0
  /\ result.skipped # <<>>
  /\ result.effective # NoDoc
  /\ heap[result.effective.states] = EmptyFn
  /\ result.snapshot.states # EmptyFn

\* C2: operations are applied strictly in list order, each checked against the
\* working model left by the ones before it. For every operation j already
\* handled: an add_state applies exactly when its symbol is absent after the
\* first j-1 operations; an operation naming a state that is absent at that
\* point is skipped; an update_state of a state present at that point (for
\* instance added earlier in the same draft) applies, and so does an
\* add_relation whose endpoints are present at that point and whose id is new.
C2_ListOrder ==
  pc \in {"apply", "done"} =>
    \A j \in 1..Len(draft) :
      j < idx =>
        LET c == draft[j]
            before == StatesAfter(draft, j - 1)
        IN /\ c.op = "add_state" => (j \in SkippedIndices <=> c.key \in before)
           /\ c.op \in {"update_state", "remove_state", "add_equation", "update_equation"}
                /\ c.key \notin before
                => j \in SkippedIndices
           /\ c.op \in {"add_relation", "update_relation"} /\ c.target \notin before
                => j \in SkippedIndices
           /\ c.op \in {"update_state", "remove_state"} /\ c.key \in before
                => j \notin SkippedIndices
           /\ c.op = "add_relation"
                /\ c.target \in before
                /\ c.source \in before \cup {NoSource}
                /\ c.key \notin RelationIds(BaseModel)
                /\ (\A i \in 1..(j - 1) : ~(draft[i].op = "add_relation" /\ draft[i].key = c.key))
                => j \notin SkippedIndices

\* A relation onto a state added earlier in the same draft was applied.
C2_Witness ==
  /\ pc = "done"
  /\ \E i \in 1..Len(draft), j \in 1..Len(draft) :
       /\ i < j
       /\ draft[i].op = "add_state"
       /\ draft[i].key \notin DOMAIN BaseModel.states
       /\ draft[j].op = "add_relation"
       /\ draft[j].target = draft[i].key
       /\ SkippedIndices = {}
       /\ \E k \in 1..Len(result.snapshot.relations) :
            result.snapshot.relations[k].id = draft[j].key

\* C3: a failing operation is recorded as a skip (index and reason) and the
\* merge goes on. When the call returns, every operation of the draft was
\* either applied or skipped, the skips are in list order with a known reason,
\* the working model is the base with exactly the non-skipped operations
\* applied, and a three-operation draft whose second operation names a
\* nonexistent state while the first and third apply gives applied_count = 2
\* and the one skip entry [index 2, unknown symbol].
C3_SkipAndContinue ==
  pc = "done" =>
    /\ result.applied_count + Len(result.skipped) = Len(draft)
    /\ \A k \in 1..Len(result.skipped) :
         /\ result.skipped[k].index \in 1..Len(draft)
         /\ result.skipped[k].reason \in SkipReasons
         /\ k > 1 => result.skipped[k - 1].index < result.skipped[k].index
    /\ result.snapshot = ApplyAll(BaseModel, Kept(draft, SkippedIndices, Len(draft)))
    /\ (/\ Len(draft) = 3
        /\ draft[2].op \in {"add_relation", "add_equation"}
        /\ (IF draft[2].op = "add_relation" THEN draft[2].target ELSE draft[2].key)
             \notin StatesAfter(draft, 1)
        /\ ApplyChange(BaseModel, draft[1]).ok
        /\ ApplyChange(ApplyChange(BaseModel, draft[1]).model, draft[3]).ok)
       => /\ result.applied_count = 2
          /\ result.skipped = <<[index |-> 2, reason |-> "unknown_symbol"]>>
          /\ result.snapshot = ApplyAll(BaseModel, <<draft[1], draft[3]>>)

\* The three-operation draft: a parameter is added, a relation onto the
\* nonexistent state M is skipped, the relation r1 is removed.
C3_Witness ==
  /\ pc = "done"
  /\ draft = <<AddParameter("kM", 2), AddRelation("r2", "T", "M"), RemoveRelation("r1")>>
  /\ result.applied_count = 2
  /\ result.skipped = <<[index |-> 2, reason |-> "unknown_symbol"]>>
  /\ "kM" \in DOMAIN result.snapshot.parameters
  /\ result.snapshot.relations = <<>>

CascadeReport(m, s) ==
  MapSeq(SelectSeq(m.relations, LAMBDA r : r.source = s \/ r.target = s),
         LAMBDA r : [kind |-> "cascade_relation", key |-> r.id])
  \o (IF s \in DOMAIN m.equations THEN <<[kind |-> "cascade_equation", key |-> s]>>
      ELSE <<>>)

RefersTo(m, s) ==
  \/ \E k \in 1..Len(m.relations) : m.relations[k].source = s \/ m.relations[k].target = s
  \/ s \in DOMAIN m.equations

C9_SkipLeavesModel ==
  [][(pc = "apply" /\ Len(skipped') > Len(skipped))
     => /\ Load(heap', work) = Load(heap, work)
        /\ heap' = heap
        /\ warnings' = warnings
        /\ applied_count' = applied_count]_vars

\* An equation update whose target expression validates and whose rate
\* expression does not was skipped, after an operation that applied.
C9_Witness ==
  /\ pc = "done"
  /\ Len(draft) = 2
  /\ draft[2] = UpdateEquation("T", ExprHalfS, ExprKmS)
  /\ result.applied_count = 1
  /\ result.skipped = <<[index |-> 2, reason |-> "invalid_expression"]>>
  /\ result.snapshot.equations["T"] = BaseModel.equations["T"]

\* C10: add_equation and update_equation are accepted only if both expressions
\* validate against the states and parameters present at that point of the
\* draft (a symbol added by an earlier operation is known, one removed by an
\* earlier operation is not). When the operation is accepted the equation holds
\* the new expressions; when either expression fails the operation is skipped
\* with the reason, the equations are unchanged and the loop moves on to the
\* next operation.
C10_EquationsValidated ==
  [][(/\ pc = "apply"
      /\ idx <= Len(draft)
      /\ draft[idx].op \in {"add_equation", "update_equation"}
      /\ idx' # idx)
     => LET c == draft[idx]
            st == StatesAfter(draft, idx - 1)
            pa == ParametersAfter(draft, idx - 1)
            bothValid == /\ ValidateExpression(c.target_expr, st, pa).valid
                         /\ ValidateExpression(c.rate_expr, st, pa).valid
            before == Load(heap, work)
            after == Load(heap', work)
        IN /\ st = DOMAIN before.states
           /\ pa = DOMAIN before.parameters
           /\ applied_count' = applied_count + 1 =>
                /\ bothValid
                /\ after.equations[c.key] =
                     [target_expr |-> c.target_expr, rate_expr |-> c.rate_expr]
           /\ ~bothValid =>
                /\ Len(skipped') = Len(skipped) + 1
                /\ skipped'[Len(skipped')].index = idx
                /\ skipped'[Len(skipped')].reason \in SkipReasons
                /\ (/\ c.key \in st
                    /\ (c.op = "add_equation") = (c.key \notin DOMAIN before.equations))
                   => skipped'[Len(skipped')].reason = "invalid_expression"
                /\ after.equations = before.equations
                /\ applied_count' = applied_count
                /\ idx' = idx + 1
                /\ pc' = "apply"]_vars

\* The equation of M was accepted because M and kM were added earlier in the
\* same draft.
C10_Witness ==
  /\ pc = "done"
  /\ draft = <<AddState("M", 5), AddParameter("kM", 2),
               AddEquation("M", ExprHalfT, ExprRateM)>>
  /\ result.skipped = <<>>
  /\ result.snapshot.equations["M"] =
       [target_expr |-> ExprHalfT, rate_expr |-> ExprRateM]

\* ------------------------------------------------------------ the editor
Uids(changes) == [i \in 1..Len(changes) |-> changes[i].uid]
Range(seq) == {seq[i] : i \in 1..Len(seq)}
StoredUids == UNION {Range(Uids(store[d])) : d \in 1..Len(store)}
\* The edits made so far, by the identity of the change each created.
EditsMade == 1..(nextUid - 1)
PositionIn(seq, x) == CHOOSE i \in 1..Len(seq) : seq[i] = x

\* C5: every edit made in the editor is recorded as a change in the draft,
\* the first edit made without a draft included: at any moment each edit's
\* change is stored in a draft, or is carried by a request still under way, or
\* was refused by the backend.
C5_EveryEditRecorded ==
  \A u \in EditsMade :
    \/ u \in StoredUids
    \/ \E k \in 1..Len(tasks) : tasks[k].change.uid = u
    \/ u \in backendRejected

\* C6: rejecting a change removes it from the draft: a rejected change is
\* neither in the editor's change list nor in any stored draft, so no later
\* validate or apply includes it.
C6_RejectedLeavesDraft ==
  \A u \in discarded :
    /\ u \notin Range(Uids(draftState.changes))
    /\ u \notin StoredUids

\* C7: the requests against one draft are serialized, the appends of one node
\* save included, so the changes the editor recorded are stored in the draft
\* in the order the editor recorded them.
C7_StoredOrderIsRecordedOrder ==
  \A d \in 1..Len(store) :
    LET recorded == Uids(draftState.changes)
        stored == Uids(store[d])
    IN \A i, j \in 1..Len(recorded) :
         (i < j /\ recorded[i] \in Range(stored) /\ recorded[j] \in Range(stored))
           => PositionIn(stored, recorded[i]) < PositionIn(stored, recorded[j])

\* ------------------------------------------------- the merge engine, again
NoDanglingRelation(m) ==
  \A i \in 1..Len(m.relations) :
    /\ m.relations[i].source # NoSource => m.relations[i].source \in DOMAIN m.states
    /\ m.relations[i].target \in DOMAIN m.states

\* C11: the base's relations all name existing states, and so do the relations
\* of the working model after every operation of any draft and of the model
\* the merge ends with: no relation's source or target names an absent state.
C11_NoDanglingRelation ==
  /\ NoDanglingRelation(Load(heap, BaseDoc))
  /\ pc = "apply" => NoDanglingRelation(Load(heap, work))
  /\ pc = "done" => NoDanglingRelation(result.snapshot)

\* A merge that removed a state and its relation, and refused a relation to
\* or from an absent state, and reported the cascade.
C11_Witness ==
  /\ pc = "done"
  /\ \E i \in 1..Len(draft) : draft[i].op = "remove_state" /\ i \notin SkippedIndices
  /\ \E i \in 1..Len(skipped) : skipped[i].reason = "unknown_symbol"
  /\ \E i \in 1..Len(skipped) : draft[skipped[i].index].op \in {"add_relation", "update_relation"}
  /\ result.warnings # <<>>

\* ------------------------------------------------------- the validators
\* A construct outside the allowlist: import-like syntax, a comparison or
\* boolean operator, a subscript, an attribute access, an operator or a
\* function that is not listed, a name that is no known state or parameter.
Disallowed(tok) ==
  \/ tok.t \in {"keyword", "compare", "bool", "subscript", "attribute"}
  \/ tok.t = "op" /\ tok.v \notin {"+", "-", "*", "/", "**"}
  \/ tok.t = "func" /\ tok.v \notin
       {"clamp", "min", "max", "sigmoid", "step", "smoothstep", "abs", "exp", "log"}
  \/ tok.t \in {"id", "target"} /\ tok.v \notin KnownStates
  \/ tok.t \in {"param", "pindex"} /\ tok.v \notin KnownParameters

\* C12: validate_expression fails closed: an expression with any construct
\* outside the allowlist is reported invalid and comes with no dependencies.
C12_FailClosed ==
  (validation # NoValidation /\ \E i \in 1..Len(localEquation) : Disallowed(localEquation[i]))
    => /\ ~validation.valid
       /\ validation.stocks = {}
       /\ validation.parameters = {}

\* A known state next to a comparison has been validated and refused.
C12_Witness ==
  /\ validation # NoValidation
  /\ ~validation.valid
  /\ \E i, j \in 1..Len(localEquation) :
       /\ localEquation[i] = Id("T")
       /\ localEquation[j].t = "compare"

ReferencedStates(text) == {text[i].v : i \in {j \in 1..Len(text) : text[j].t = "id"}}
ReferencedParameters(text) ==
  {text[i].v : i \in {j \in 1..Len(text) : text[j].t \in {"param", "pindex"}}}

\* C13: for a valid expression the extracted dependencies are exactly the
\* states and the parameters (written p.<name> or p['<name>']) that occur in
\* it, each listed once.
C13_DependenciesExact ==
  (validation # NoValidation /\ validation.valid /\ dependencies # NoDependencies)
    => /\ Range(dependencies.stocks) = ReferencedStates(localEquation)
       /\ Range(dependencies.parameters) = ReferencedParameters(localEquation)
       /\ Len(dependencies.stocks) = Cardinality(Range(dependencies.stocks))
       /\ Len(dependencies.parameters) = Cardinality(Range(dependencies.parameters))

\* ------------------------------------------------------ the editor, again
\* C14: undo takes the most recently added change out of the draft and redo
\* puts it back: a change that was undone and not redone (it is on the redo
\* stack) is in neither the editor's change list nor the stored draft, so
\* validate and apply do not include it.
C14_UndoneLeavesDraft ==
  \A u \in Range(Uids(redoStack)) :
    /\ u \notin Range(Uids(draftState.changes))
    /\ u \notin StoredUids

\* ---------------------------------------------------------- AI proposals
\* The changes that are in a draft or on their way into one.
InDraft ==
  StoredUids \cup Range(Uids(draftState.changes))
    \cup {tasks[k].change.uid : k \in InFlight({"append"})}

\* C15: AI-generated changes do not alter the model or the draft by
\* themselves: whatever is generated, shown, or left behind when the modal is
\* closed, the only proposals that are in a draft or sent to one are those
\* that were selected in the displayed list when Accept was pressed, and the
\* graph shown is as it was.
C15_OnlyChosenProposalsAppended ==
  /\ InDraft \subseteq chosen
  /\ nodes = {"T", "S"}
  /\ edges = <<EdgeOf(LoadedId("S", "T"), "S", "T")>>

\* One of two generated proposals was accepted and stored, the other was not
\* selected; the modal is closed again.
C15_Witness ==
  /\ ~showAIModal /\ ~acceptLoop.active
  /\ StoredUids # {}
  /\ \E v \in EditsMade : v \notin chosen /\ v \notin InDraft

\* C16: the editor discards its draft (inactive, change list emptied) only
\* when a commit succeeded: each step in which an active draft becomes
\* inactive or loses recorded changes is the return of an apply request that
\* was sent with commit = true.
C16_DiscardOnlyAfterCommit ==
  [][(draftState.active
        /\ (~draftState'.active \/ Len(draftState'.changes) < Len(draftState.changes))
        /\ discarded' = discarded)
       => \E k \in InFlight({"apply"}) : tasks[k].commit /\ tasks' = DropAt(tasks, k)]_vars

C18_AllErrorsReported ==
  modelReport # NoReport
    => /\ modelReport.valid <=> modelReport.errors = <<>>
       /\ \A D \in SUBSET Defects :
            document = DefectiveModel(D)
              => /\ Len(modelReport.errors) = Cardinality(D)
                 /\ {modelReport.errors[i].kind : i \in 1..Len(modelReport.errors)} = D

\* The model with all six violations has been validated.
C18_Witness ==
  /\ modelReport # NoReport
  /\ document = DefectiveModel(Defects)
  /\ Len(modelReport.errors) = Cardinality(Defects)
  /\ ~modelReport.valid


\* ------------------------------------------------------------ node save
\* The changes the editor has handed to a draft: stored, listed in the
\* editor's draft state, or carried by an append request under way.
ChangesHanded ==
  UNION {Range(store[d]) : d \in 1..Len(store)}
    \cup Range(draftState.changes)
    \cup {tasks[k].change : k \in InFlight({"append"})}

\* C19: saving a node whose equations were edited appends an update_equation
\* change for that node to the draft: whenever the update_state change of a
\* node save has been handed to the draft, an update_equation change for the
\* same state has been handed to it too.
C19_SaveSendsEquation ==
  \A c \in ChangesHanded :
    (c.op = "update_state" /\ c.data = "props")
      => \E e \in ChangesHanded : e.op = "update_equation" /\ e.key = c.key

\* The auto-generated edges into node n, as a set.
AutoEdgesInto(eds, n) ==
  {eds[k] : k \in {j \in 1..Len(eds) : eds[j].target = n /\ eds[j].id[1] = "auto"}}

\* The view after a node save in EnhancedGraphView: the auto-generated edges
\* into the node are one per referenced stock other than the node itself.
AutoEdgesExact ==
  [][\A n \in SaveChoices, deps \in DepChoices :
       (component = "EnhancedGraphView" /\ HandleNodeSave(n, deps))
         => AutoEdgesInto(edges', n)
              = {EdgeOf(AutoId(src, n), src, n) : src \in Range(deps) \ {n}}]_vars

\* C20: every auto-generated edge shown has a matching add_relation change in
\* the draft (stored, listed, or on its way), is not a self-loop, and shares
\* its id with no other edge.
C20_AutoEdgesRecorded ==
  \A k \in 1..Len(edges) :
    edges[k].id[1] = "auto" =>
      /\ edges[k].source # edges[k].target
      /\ \A j \in 1..Len(edges) : edges[j].id = edges[k].id => j = k
      /\ \E c \in ChangesHanded :
           /\ c.op = "add_relation"
           /\ c.id = edges[k].id
           /\ c.source = edges[k].source
           /\ c.target = edges[k].target

\* ------------------------------------------------- the running example
\* C21: in the running example the dependencies shown for the target
\* expression "clamp(0.6*S, 0, 1)" are stocks {S} and parameters {kT}, and
\* those shown for the rate expression "kT*(T_target - T)", however kT is
\* written, are no stock and parameters {kT}; T_target is not listed.
C21_ExampleDependencies ==
  dependencies # NoDependencies =>
    /\ localEquation = ExprClampS
         => /\ Range(dependencies.stocks) = {"S"}
            /\ Range(dependencies.parameters) = {"kT"}
    /\ localEquation \in {ExprRateT, ExprRateTBare}
         => /\ Range(dependencies.stocks) = {}
            /\ Range(dependencies.parameters) = {"kT"}

\* ------------------------------------------------------ undo and redo
\* The two stacks as a pair, and the pair after an undo and after a redo.
Stacks == <<undoStack, redoStack>>
Front(seq) == SubSeq(seq, 1, Len(seq) - 1)
Last(seq) == seq[Len(seq)]
Undone(st) == <<Front(st[1]), Append(st[2], Last(st[1]))>>
Redone(st) == <<Append(st[1], Last(st[2])), Front(st[2])>>

\* A step in which a request leaves (a change is recorded, or an apply
\* returns) or a change is rejected from the review panel.
RequestOrReject == Len(tasks') < Len(tasks) \/ discarded' # discarded

\* C22: a recorded change is pushed on the undo stack and empties the redo
\* stack; every other change of the stacks made from the toolbar is an undo,
\* which moves the top of the undo stack onto the redo stack, or a redo, which
\* moves it back; neither changes the total number of entries, neither
\* happens on an empty stack, and an undo followed by a redo (or a redo
\* followed by an undo) gives back both stacks.
C22_StackAlgebra ==
  [][/\ \A k \in InFlight({"append"}) :
          (tasks[k].phase = "ok" /\ tasks' = DropAt(tasks, k)
             /\ Len(draftState'.changes) > Len(draftState.changes))
            => /\ undoStack' = Append(undoStack, tasks[k].change)
               /\ redoStack' = <<>>
     /\ (Stacks' # Stacks /\ ~RequestOrReject)
          => /\ \/ undoStack # <<>> /\ Stacks' = Undone(Stacks)
                \/ redoStack # <<>> /\ Stacks' = Redone(Stacks)
             /\ Len(undoStack') + Len(redoStack') = Len(undoStack) + Len(redoStack)
     /\ undoStack # <<>> => Redone(Undone(Stacks)) = Stacks
     /\ redoStack # <<>> => Undone(Redone(Stacks)) = Stacks
     /\ (undoStack = <<>> /\ redoStack = <<>> /\ ~RequestOrReject) => Stacks' = Stacks]_vars

\* Two changes were recorded and the later one was undone.
C22_Witness ==
  /\ Len(draftState.changes) = 2
  /\ undoStack = <<draftState.changes[1]>>
  /\ redoStack = <<draftState.changes[2]>>

\* ------------------------------------------------------------ node drag
\* The update_state changes for node n among the requests a step adds.
NewPositionChanges(n) ==
  {k \in (Len(tasks) + 1)..Len(tasks') :
     tasks'[k].change.op = "update_state" /\ tasks'[k].change.key = n}

\* What a step of the canvas does with the dragging flag: no update_state is
\* produced for a node that is still being dragged, and one that is produced
\* carries the node's position in its ui field.
OnlyAtDragEnd ==
  \A n \in NodeIds : \A k \in NewPositionChanges(n) :
    /\ n \notin dragging'
    /\ tasks'[k].change.data = UiData(positions'[n])

\* The part of C23 that holds: with a draft open.
DragEndRecordedInDraft ==
  [][/\ OnlyAtDragEnd
     /\ \A n \in nodes :
          (draftState.draft # NoDraft /\ n \in dragging /\ n \notin dragging')
            => Cardinality(NewPositionChanges(n)) = 1]_vars

\* C23: a node drag yields a position change only at drag end: no update_state
\* is produced while the dragging flag is set, and the end of a drag of an
\* existing node produces exactly one update_state for that node, carrying the
\* final position in its ui field.
C23_DragEndRecordsPosition ==
  [][/\ OnlyAtDragEnd
     /\ \A n \in nodes :
          (n \in dragging /\ n \notin dragging')
            => Cardinality(NewPositionChanges(n)) = 1]_vars

\* ------------------------------------------------------ refused appends
\* C24: when the backend rejects the append of an edit, the editor keeps no
\* trace of the edit: the change is in neither the change list nor a stack,
\* and the nodes, their places and the edges shown are as before the edit.
\* Stated for an edit made on the graph as loaded, the only edit so far, so
\* that the view before the edit is the loaded one.
C24_RefusedLeavesNoTrace ==
  [][\A k \in InFlight({"append"}) :
       (/\ tasks' = DropAt(tasks, k)
        /\ tasks[k].change.uid \in backendRejected' \ backendRejected
        /\ EditsMade = {tasks[k].change.uid})
         => /\ tasks[k].change \notin
                 Range(draftState'.changes) \cup Range(undoStack') \cup Range(redoStack')
            /\ nodes' = {"T", "S"}
            /\ edges' = <<EdgeOf(LoadedId("S", "T"), "S", "T")>>
            /\ positions' = [n \in NodeIds |-> "at0"]]_vars

\* ------------------------------------------------- stacks and the draft
\* C25: every change on the undo stack or on the redo stack is in the current
\* draft's change list, and both stacks are empty whenever no draft is active.
C25_StacksWithinDraft ==
  /\ Range(undoStack) \cup Range(redoStack) \subseteq Range(draftState.changes)
  /\ ~draftState.active => undoStack = <<>> /\ redoStack = <<>>

\* ------------------------------------------------------ draft creation
\* The createDraft requests among ts.
Creates(ts) == Cardinality({k \in 1..Len(ts) : ts[k].kind = "create"})

\* C26: the editor asks the backend for a draft only while it holds none, and
\* one user action asks for at most one: no step sends a createDraft while a
\* draft is held, and no step sends more than one.
C26_OneDraftPerAction ==
  [][Creates(tasks') > Creates(tasks)
       => /\ draftState.draft = NoDraft
          /\ Creates(tasks') = Creates(tasks) + 1]_vars

\* ------------------------------------------------- edges and their nodes
\* C27: every edge of the editor graph has its source and its target among
\* the nodes shown, also after a change was rejected from the review panel.
C27_EdgesJoinNodes ==
  \A k \in 1..Len(edges) : edges[k].source \in nodes /\ edges[k].target \in nodes

\* ------------------------------------------------- the proposal modal
\* C28: while the AI proposal modal is shown, the selected set holds only
\* indices of the proposals displayed, so that no more are selected than are
\* displayed; also after a new generation and after closing and reopening.
C28_SelectionWithinProposals ==
  showAIModal =>
    /\ selectedChanges \subseteq 0..(Len(aiProposals) - 1)
    /\ Cardinality(selectedChanges) <= Len(aiProposals)

\* ------------------------------------------------------------ scenarios
\* C29: after any sequence of select, save, delete, duplicate and reload
\* actions the selected scenario is none or a key of the scenario map.
C29_SelectedIsAScenario ==
  selectedScenario = NoScenario \/ selectedScenario \in KeysOf(scenarios)

====
